---- MODULE Spec2Model ----
(***************************************************************************)
(* TTS service: the Flask submission handler (run.py), the Redis/RQ queue  *)
(* 'tts' between them, and the RQ worker running process_tts (worker.py).  *)
(*                                                                         *)
(* The HTTP server handles one request at a time; one worker process       *)
(* consumes the queue.  Jobs of earlier requests stay in the broker.       *)
(***************************************************************************)
EXTENDS Integers, Sequences, FiniteSets, TLC

\* ---- bounds ----
MaxRequests == 2

\* ---- program constants ----
timeout == 60               \* run.py:34, seconds
TicksPerSecond == 2         \* run.py:36, interval = 0.5 s = one tick
intervalDouble == 1 + 1
interval == 1               \* run.py:36, in ticks
UuidHexLen == 32            \* worker.py:89, len(uuid.uuid4().hex)

SFTP_HOST == "10.101.214.227"
REMOTE_PATH == "/var/lib/asterisk/sounds/campanas"
job_timeout == "2m"

None == "None"
\* None where the other values are records
NoneRec == [none |-> TRUE]

\* request.form.get('text'): the field is missing (None), empty, or a text
Texts == {None, "", "Hola mundo"}

\* the bodies {"error": ...} of run.py:27, 47, 54 and 57; the second
\* component is the text of the exception formatted into the message
Error(msg, e) == [error |-> <<msg, e>>]
ErrMissingText == Error("Se requiere el campo 'text' en el form-data", "")
ErrWorkerFailed == Error("El worker fallo al procesar la tarea", "")
ErrWaitTimeout ==
    Error("Tiempo de espera agotado, la tarea tardo demasiado", "")
ErrRedis(e) ==
    Error("No se pudo conectar o encolar la tarea en Redis: ", e)

\* the stages of process_tts, in program order
Stages == <<"open", "auth", "sftp", "chdir", "mkdir", "chdir2", "synth",
            "package", "transcode", "upload", "return">>

VARIABLES
    \* --- run.py: the request being handled ---
    reqs,          \* number of requests received so far
    hpc,           \* "idle" | "poll" | "done"
    text,          \* the form field of the current request
    job,           \* id of the job enqueued by the current request, 0 if none
    waited,        \* run.py:35, in ticks of interval
    polls,         \* number of job.refresh() calls made by the current request
    observed,      \* status seen by the last job.refresh(), None before
    resp,          \* response of the current request, NoResponse until sent
    \* --- Redis / RQ ---
    q,             \* the list 'tts': ids of the jobs waiting for a worker
    jobs,          \* job id -> job hash
    \* --- worker.py: the worker process ---
    wpc,           \* "idle", a stage of process_tts, "finally" or "record"
    wjob,          \* id of the job being performed, 0 if none
    transport,     \* None | "open" | "closed"
    sftp_client,   \* None | "open" | "closed"
    cwd,           \* working directory of the SFTP session
    exc,           \* exception propagating out of process_tts, None if none
    filename,      \* worker.py:89, NoneRec until generated
    ret,           \* return value of process_tts, NoneRec if none
    opens,         \* transports opened by the current call of process_tts
    \* --- the delivery target ---
    remoteDir,     \* REMOTE_PATH exists on the target
    remoteFiles    \* names of the files completely uploaded

hvars == <<reqs, hpc, text, job, waited, polls, observed, resp>>
bvars == <<q, jobs>>
wvars == <<wpc, wjob, transport, sftp_client, cwd, exc, filename, ret, opens>>
rvars == <<remoteDir, remoteFiles>>
vars == <<reqs, hpc, text, job, waited, polls, observed, resp, q, jobs,
          wpc, wjob, transport, sftp_client, cwd, exc, filename, ret, opens,
          remoteDir, remoteFiles>>

FalsyOnlyNone(t) == t = None

\* `not text`
Falsy(t) == t = None \/ t = ""

Response(code, body) == [code |-> code, body |-> body]
\* the handler has not returned yet
NoResponse == [code |-> 0]

\* q.enqueue('worker.process_tts', text, job_timeout='2m'): the new job hash
NewJob(t) ==
    [status |-> "queued", text |-> t, timeout |-> job_timeout,
     result |-> NoneRec, error |-> None, runs |-> 0]

\* uuid.uuid4(): a token no other call returns; process_tts draws one per
\* call, and the token drawn for job j is named after j
uuid4(j) == j

\* f"{uuid.uuid4().hex}.gsm"
Filename(u) == [hex |-> u, hexLen |-> UuidHexLen, ext |-> ".gsm"]

\* Result whose saved_to lacks the slash before the name
ResultNoSlash(fn) ==
    [filename |-> fn, saved_to |-> <<SFTP_HOST, ":", REMOTE_PATH, fn>>]

\* {"filename": filename, "saved_to": f"{SFTP_HOST}:{REMOTE_PATH}/{filename}"}
Result(fn) ==
    [filename |-> fn, saved_to |-> <<SFTP_HOST, ":", REMOTE_PATH, "/", fn>>]

Init ==
    /\ reqs = 0 /\ hpc = "idle" /\ text = None /\ job = 0
    /\ waited = 0 /\ polls = 0 /\ observed = None /\ resp = NoResponse
    /\ q = <<>> /\ jobs = <<>>
    /\ wpc = "idle" /\ wjob = 0
    /\ transport = None /\ sftp_client = None /\ cwd = None
    /\ exc = None /\ filename = NoneRec /\ ret = NoneRec /\ opens = 0
    /\ remoteDir \in BOOLEAN /\ remoteFiles = {}

----
\* run.py: enqueue_tts_task

\* Submit with q.enqueue outside the try block: the error reaches Flask
SubmitUnhandled(t, brokerUp) ==
    /\ hpc \in {"idle", "done"}
    /\ reqs < MaxRequests
    /\ reqs' = reqs + 1
    /\ text' = t
    /\ waited' = 0 /\ polls' = 0 /\ observed' = None
    /\ IF Falsy(t)
       THEN /\ resp' = Response(400, ErrMissingText)
            /\ hpc' = "done" /\ job' = 0
            /\ UNCHANGED bvars
       ELSE IF brokerUp
       THEN /\ jobs' = Append(jobs, NewJob(t))
            /\ q' = Append(q, Len(jobs) + 1)
            /\ job' = Len(jobs) + 1
            /\ hpc' = "poll" /\ resp' = NoResponse
       ELSE /\ resp' = Response(500, Error("Internal Server Error", ""))
            /\ hpc' = "done" /\ job' = 0
            /\ UNCHANGED bvars
    /\ UNCHANGED <<wvars, rvars>>

\* lines 25-31: read the field, reject an empty one, enqueue the job
Submit(t, brokerUp) ==
    /\ hpc \in {"idle", "done"}
    /\ reqs < MaxRequests
    /\ reqs' = reqs + 1
    /\ text' = t
    /\ waited' = 0 /\ polls' = 0 /\ observed' = None
    /\ IF Falsy(t)
       THEN /\ resp' = Response(400, ErrMissingText)
            /\ hpc' = "done" /\ job' = 0
            /\ UNCHANGED bvars
       ELSE IF brokerUp
       THEN /\ jobs' = Append(jobs, NewJob(t))
            /\ q' = Append(q, Len(jobs) + 1)
            /\ job' = Len(jobs) + 1
            /\ hpc' = "poll" /\ resp' = NoResponse
       ELSE /\ resp' = Response(500, ErrRedis("enqueue"))
            /\ hpc' = "done" /\ job' = 0
            /\ UNCHANGED bvars
    /\ UNCHANGED <<wvars, rvars>>

WaitingInclusive == waited <= timeout * TicksPerSecond

\* the loop test of line 38
Waiting == waited < timeout * TicksPerSecond

is_finishedStarted(j) == j.status \in {"running", "finished"}

\* line 41, on the job as refreshed at line 39
is_finished(j) == j.status = "finished"

is_failedNever(j) == FALSE

\* line 45
is_failed(j) == j.status = "failed"

\* Poll that puts the failure stored on the job into the 500 body
PollLeaky(brokerUp) ==
    /\ hpc = "poll"
    /\ Waiting
    /\ polls' = polls + 1
    /\ IF ~brokerUp
       THEN /\ resp' = Response(500, ErrRedis("refresh"))
            /\ hpc' = "done"
            /\ UNCHANGED <<waited, observed>>
       ELSE /\ observed' = jobs[job].status
            /\ IF is_finished(jobs[job])
               THEN /\ resp' = Response(200, jobs[job].result)
                    /\ hpc' = "done" /\ UNCHANGED waited
               ELSE IF is_failed(jobs[job])
               THEN /\ resp' = Response(500,
                                Error("El worker fallo al procesar la tarea",
                                      jobs[job].error))
                    /\ hpc' = "done" /\ UNCHANGED waited
               ELSE /\ waited' = waited + interval
                    /\ UNCHANGED <<resp, hpc>>
    /\ UNCHANGED <<reqs, text, job, bvars, wvars, rvars>>

\* lines 38-51: one iteration of the loop
Poll(brokerUp) ==
    /\ hpc = "poll"
    /\ Waiting
    /\ polls' = polls + 1
    /\ IF ~brokerUp
       THEN /\ resp' = Response(500, ErrRedis("refresh"))
            /\ hpc' = "done"
            /\ UNCHANGED <<waited, observed>>
       ELSE /\ observed' = jobs[job].status
            /\ IF is_finished(jobs[job])
               THEN /\ resp' = Response(200, jobs[job].result)
                    /\ hpc' = "done" /\ UNCHANGED waited
               ELSE IF is_failed(jobs[job])
               THEN /\ resp' = Response(500, ErrWorkerFailed)
                    /\ hpc' = "done" /\ UNCHANGED waited
               ELSE /\ waited' = waited + interval
                    /\ UNCHANGED <<resp, hpc>>
    /\ UNCHANGED <<reqs, text, job, bvars, wvars, rvars>>

\* GiveUp that also cancels the job it stops waiting for
GiveUpCancel ==
    /\ hpc = "poll"
    /\ ~Waiting
    /\ resp' = Response(504, ErrWaitTimeout)
    /\ hpc' = "done"
    /\ q' = SelectSeq(q, LAMBDA j : j # job)
    /\ jobs' = IF jobs[job].status = "queued"
               THEN [jobs EXCEPT ![job].status = "failed",
                                 ![job].error = "canceled"]
               ELSE jobs
    /\ UNCHANGED <<reqs, text, job, waited, polls, observed, wvars, rvars>>

\* GiveUp that looks at the job once more when the budget is used up
GiveUpFinalCheck ==
    /\ hpc = "poll"
    /\ ~Waiting
    /\ observed' = jobs[job].status
    /\ polls' = polls + 1
    /\ resp' = IF is_finished(jobs[job])
               THEN Response(200, jobs[job].result)
               ELSE Response(504, ErrWaitTimeout)
    /\ hpc' = "done"
    /\ UNCHANGED <<reqs, text, job, waited, bvars, wvars, rvars>>

\* line 54: the loop ended on its test
GiveUp ==
    /\ hpc = "poll"
    /\ ~Waiting
    /\ resp' = Response(504, ErrWaitTimeout)
    /\ hpc' = "done"
    /\ UNCHANGED <<reqs, text, job, waited, polls, observed,
                   bvars, wvars, rvars>>

----
\* worker.py: the worker loop and process_tts

PipelineStages == {Stages[i] : i \in 1..Len(Stages)}

\* an exception leaves the try block: control goes to the finally clause
Raise(e) ==
    /\ exc' = e
    /\ wpc' = "finally"

\* Dequeue that does not mark the job as started
DequeueKeepsQueued ==
    /\ wpc = "idle"
    /\ q # <<>>
    /\ wjob' = Head(q)
    /\ q' = Tail(q)
    /\ jobs' = [jobs EXCEPT ![Head(q)].runs = @ + 1]
    /\ transport' = None /\ sftp_client' = None
    /\ wpc' = "open"
    /\ UNCHANGED <<cwd, exc, filename, ret, opens, hvars, rvars>>

\* lines 107-113, w.work(): take the oldest job of 'tts' and call
\* process_tts, whose first statements are lines 47-48
Dequeue ==
    /\ wpc = "idle"
    /\ q # <<>>
    /\ wjob' = Head(q)
    /\ q' = Tail(q)
    /\ jobs' = [jobs EXCEPT ![Head(q)].status = "running",
                            ![Head(q)].runs = @ + 1]
    /\ transport' = None /\ sftp_client' = None
    /\ wpc' = "open"
    /\ UNCHANGED <<cwd, exc, filename, ret, opens, hvars, rvars>>

\* OpenTransport that keeps the transport of the previous job when that job
\* went through, and opens one only otherwise
OpenTransportCached(ok) ==
    /\ wpc = "open"
    /\ IF ok
       THEN /\ transport' = "open"
            /\ opens' = IF wjob > 1 /\ jobs[wjob - 1].status = "finished"
                        THEN opens
                        ELSE opens + 1
            /\ wpc' = "auth"
            /\ UNCHANGED exc
       ELSE /\ Raise("open")
            /\ UNCHANGED <<transport, opens>>
    /\ UNCHANGED <<wjob, sftp_client, cwd, filename, ret,
                   hvars, bvars, rvars>>

\* OpenTransport that, after a job whose delivery failed, goes on with the
\* handle that job left behind instead of opening a transport
OpenTransportKeepsBroken(ok) ==
    /\ wpc = "open"
    /\ IF ok
       THEN /\ IF wjob > 1 /\ jobs[wjob - 1].error = "paramiko"
               THEN transport' = "closed" /\ UNCHANGED opens
               ELSE transport' = "open" /\ opens' = opens + 1
            /\ wpc' = "auth"
            /\ UNCHANGED exc
       ELSE /\ Raise("open")
            /\ UNCHANGED <<transport, opens>>
    /\ UNCHANGED <<wjob, sftp_client, cwd, filename, ret,
                   hvars, bvars, rvars>>

\* line 53: paramiko.Transport((SFTP_HOST, SFTP_PORT))
OpenTransport(ok) ==
    /\ wpc = "open"
    /\ IF ok
       THEN /\ transport' = "open"
            /\ opens' = opens + 1
            /\ wpc' = "auth"
            /\ UNCHANGED exc
       ELSE /\ Raise("open")
            /\ UNCHANGED <<transport, opens>>
    /\ UNCHANGED <<wjob, sftp_client, cwd, filename, ret,
                   hvars, bvars, rvars>>

\* line 54: transport.connect(username, password)
Connect(ok) ==
    /\ wpc = "auth"
    /\ IF ok THEN wpc' = "sftp" /\ UNCHANGED exc ELSE Raise("auth")
    /\ UNCHANGED <<wjob, transport, sftp_client, cwd, filename, ret, opens,
                   hvars, bvars, rvars>>

\* line 55: paramiko.SFTPClient.from_transport(transport)
OpenSftp(ok) ==
    /\ wpc = "sftp"
    /\ IF ok
       THEN sftp_client' = "open" /\ wpc' = "chdir" /\ UNCHANGED exc
       ELSE Raise("sftp") /\ UNCHANGED sftp_client
    /\ UNCHANGED <<wjob, transport, cwd, filename, ret, opens,
                   hvars, bvars, rvars>>

\* Chdir whose IOError is passed over without creating the directory
ChdirPassesIOError(r) ==
    /\ wpc = "chdir"
    /\ r \in {"ok", "IOError", "Exception"}
    /\ r = "ok" => remoteDir
    /\ CASE r = "ok" -> cwd' = REMOTE_PATH /\ wpc' = "synth" /\ UNCHANGED exc
         [] r = "IOError" -> wpc' = "synth" /\ UNCHANGED <<cwd, exc>>
         [] OTHER -> Raise("chdir") /\ UNCHANGED cwd
    /\ UNCHANGED <<wjob, transport, sftp_client, filename, ret, opens,
                   hvars, bvars, rvars>>

\* lines 57-59: chdir succeeds only into an existing directory; an IOError
\* (missing directory, or a socket error) goes to the handler of line 59
Chdir(r) ==
    /\ wpc = "chdir"
    /\ r \in {"ok", "IOError", "Exception"}
    /\ r = "ok" => remoteDir
    /\ CASE r = "ok" -> cwd' = REMOTE_PATH /\ wpc' = "synth" /\ UNCHANGED exc
         [] r = "IOError" -> wpc' = "mkdir" /\ UNCHANGED <<cwd, exc>>
         [] OTHER -> Raise("chdir") /\ UNCHANGED cwd
    /\ UNCHANGED <<wjob, transport, sftp_client, filename, ret, opens,
                   hvars, bvars, rvars>>

\* line 61: mkdir succeeds only when the directory does not exist yet
Mkdir(ok) ==
    /\ wpc = "mkdir"
    /\ ok => ~remoteDir
    /\ IF ok
       THEN remoteDir' = TRUE /\ wpc' = "chdir2" /\ UNCHANGED exc
       ELSE Raise("mkdir") /\ UNCHANGED remoteDir
    /\ UNCHANGED <<wjob, transport, sftp_client, cwd, filename, ret, opens,
                   remoteFiles, hvars, bvars>>

\* Chdir2 whose failure is ignored
Chdir2Ignored(ok) ==
    /\ wpc = "chdir2"
    /\ ok => remoteDir
    /\ cwd' = IF ok THEN REMOTE_PATH ELSE cwd
    /\ wpc' = "synth"
    /\ UNCHANGED <<wjob, transport, sftp_client, exc, filename, ret, opens,
                   hvars, bvars, rvars>>

\* line 62
Chdir2(ok) ==
    /\ wpc = "chdir2"
    /\ ok => remoteDir
    /\ IF ok
       THEN cwd' = REMOTE_PATH /\ wpc' = "synth" /\ UNCHANGED exc
       ELSE Raise("chdir2") /\ UNCHANGED cwd
    /\ UNCHANGED <<wjob, transport, sftp_client, filename, ret, opens,
                   hvars, bvars, rvars>>

\* lines 68-69: voice.synthesize(text), joined into PCM bytes
Synthesize(ok) ==
    /\ wpc = "synth"
    /\ IF ok THEN wpc' = "package" /\ UNCHANGED exc ELSE Raise("synth")
    /\ UNCHANGED <<wjob, transport, sftp_client, cwd, filename, ret, opens,
                   hvars, bvars, rvars>>

\* lines 71-77: the WAV container, in memory
Package(ok) ==
    /\ wpc = "package"
    /\ IF ok THEN wpc' = "transcode" /\ UNCHANGED exc ELSE Raise("package")
    /\ UNCHANGED <<wjob, transport, sftp_client, cwd, filename, ret, opens,
                   hvars, bvars, rvars>>

\* lines 81-86: 8 kHz mono GSM, in memory
Transcode(ok) ==
    /\ wpc = "transcode"
    /\ IF ok THEN wpc' = "upload" /\ UNCHANGED exc ELSE Raise("transcode")
    /\ UNCHANGED <<wjob, transport, sftp_client, cwd, filename, ret, opens,
                   hvars, bvars, rvars>>

\* Upload whose failure is swallowed
UploadSwallowed(ok) ==
    /\ wpc = "upload"
    /\ filename' = Filename(uuid4(wjob))
    /\ remoteFiles' = IF ok THEN remoteFiles \cup {Filename(uuid4(wjob))}
                      ELSE remoteFiles
    /\ wpc' = "return"
    /\ UNCHANGED <<wjob, transport, sftp_client, cwd, exc, ret, opens,
                   remoteDir, hvars, bvars>>

\* lines 89-92: draw the name, then sftp_client.putfo(gsm_buffer, filename)
Upload(ok) ==
    /\ wpc = "upload"
    /\ filename' = Filename(uuid4(wjob))
    /\ IF ok
       THEN /\ remoteFiles' = remoteFiles \cup {Filename(uuid4(wjob))}
            /\ wpc' = "return"
            /\ UNCHANGED exc
       ELSE /\ Raise("upload")
            /\ UNCHANGED remoteFiles
    /\ UNCHANGED <<wjob, transport, sftp_client, cwd, ret, opens, remoteDir,
                   hvars, bvars>>

\* line 94
Return ==
    /\ wpc = "return"
    /\ ret' = Result(filename)
    /\ wpc' = "finally"
    /\ UNCHANGED <<wjob, transport, sftp_client, cwd, exc, filename, opens,
                   hvars, bvars, rvars>>

\* run.py:31, job_timeout='2m': RQ raises JobTimeoutException inside the
\* running job when its execution deadline passes
JobTimeout ==
    /\ wpc \in PipelineStages
    /\ Raise("JobTimeoutException")
    /\ UNCHANGED <<wjob, transport, sftp_client, cwd, filename, ret, opens,
                   hvars, bvars, rvars>>

\* Finally that closes the SFTP client and forgets the transport
FinallyLeaksTransport ==
    /\ wpc = "finally"
    /\ sftp_client' = IF sftp_client # None THEN "closed" ELSE sftp_client
    /\ wpc' = "record"
    /\ UNCHANGED <<wjob, transport, cwd, exc, filename, ret, opens,
                   hvars, bvars, rvars>>

\* lines 96-103
Finally ==
    /\ wpc = "finally"
    /\ sftp_client' = IF sftp_client # None THEN "closed" ELSE sftp_client
    /\ transport' = IF transport # None THEN "closed" ELSE transport
    /\ wpc' = "record"
    /\ UNCHANGED <<wjob, cwd, exc, filename, ret, opens,
                   hvars, bvars, rvars>>

\* what RQ stores as the failure of the job: the traceback tells a failure
\* of the delivery from one of the audio stages and from the deadline
ExcInfo(e) ==
    CASE e \in {"open", "auth", "sftp", "chdir", "mkdir", "chdir2", "upload"}
             -> "paramiko"
      [] e \in {"synth", "package", "transcode"} -> "audio"
      [] OTHER -> e

\* Record that lets the exception of process_tts end the worker
RecordCrashes ==
    /\ wpc = "record"
    /\ jobs' = IF exc = None
               THEN [jobs EXCEPT ![wjob].status = "finished",
                                 ![wjob].result = ret]
               ELSE jobs
    /\ wpc' = IF exc = None THEN "idle" ELSE "crashed"
    /\ wjob' = IF exc = None THEN 0 ELSE wjob
    /\ transport' = None /\ sftp_client' = None
    /\ cwd' = None /\ exc' = None /\ filename' = NoneRec /\ ret' = NoneRec
    /\ opens' = 0
    /\ UNCHANGED <<q, hvars, rvars>>

\* Record that stores nothing for a job stopped by its deadline
RecordSkipsTimeout ==
    /\ wpc = "record"
    /\ jobs' = IF exc = None
               THEN [jobs EXCEPT ![wjob].status = "finished",
                                 ![wjob].result = ret]
               ELSE IF exc = "JobTimeoutException"
               THEN jobs
               ELSE [jobs EXCEPT ![wjob].status = "failed",
                                 ![wjob].error = ExcInfo(exc)]
    /\ wpc' = "idle"
    /\ wjob' = 0
    /\ transport' = None /\ sftp_client' = None
    /\ cwd' = None /\ exc' = None /\ filename' = NoneRec /\ ret' = NoneRec
    /\ opens' = 0
    /\ UNCHANGED <<q, hvars, rvars>>

\* Record that puts a failed job back on the queue
RecordRetries ==
    /\ wpc = "record"
    /\ jobs' = IF exc = None
               THEN [jobs EXCEPT ![wjob].status = "finished",
                                 ![wjob].result = ret]
               ELSE [jobs EXCEPT ![wjob].status = "queued"]
    /\ q' = IF exc = None THEN q ELSE Append(q, wjob)
    /\ wpc' = "idle"
    /\ wjob' = 0
    /\ transport' = None /\ sftp_client' = None
    /\ cwd' = None /\ exc' = None /\ filename' = NoneRec /\ ret' = NoneRec
    /\ opens' = 0
    /\ UNCHANGED <<hvars, rvars>>

\* w.work(): store the outcome of process_tts on the job; the locals of
\* process_tts are gone
Record ==
    /\ wpc = "record"
    /\ jobs' = IF exc = None
               THEN [jobs EXCEPT ![wjob].status = "finished",
                                 ![wjob].result = ret]
               ELSE [jobs EXCEPT ![wjob].status = "failed",
                                 ![wjob].error = ExcInfo(exc)]
    /\ wpc' = "idle"
    /\ wjob' = 0
    /\ transport' = None /\ sftp_client' = None
    /\ cwd' = None /\ exc' = None /\ filename' = NoneRec /\ ret' = NoneRec
    /\ opens' = 0
    /\ UNCHANGED <<q, hvars, rvars>>

----
Next ==
    \/ \E t \in Texts, up \in BOOLEAN : Submit(t, up)
    \/ \E up \in BOOLEAN : Poll(up)
    \/ GiveUp
    \/ Dequeue
    \/ \E ok \in BOOLEAN : OpenTransport(ok)
    \/ \E ok \in BOOLEAN : Connect(ok)
    \/ \E ok \in BOOLEAN : OpenSftp(ok)
    \/ \E r \in {"ok", "IOError", "Exception"} : Chdir(r)
    \/ \E ok \in BOOLEAN : Mkdir(ok)
    \/ \E ok \in BOOLEAN : Chdir2(ok)
    \/ \E ok \in BOOLEAN : Synthesize(ok)
    \/ \E ok \in BOOLEAN : Package(ok)
    \/ \E ok \in BOOLEAN : Transcode(ok)
    \/ \E ok \in BOOLEAN : Upload(ok)
    \/ Return
    \/ JobTimeout
    \/ Finally
    \/ Record

Spec == Init /\ [][Next]_vars

TypeOK ==
    /\ reqs \in 0..MaxRequests
    /\ hpc \in {"idle", "poll", "done"}
    /\ text \in Texts
    /\ job \in 0..Len(jobs)
    /\ waited \in 0..(timeout * TicksPerSecond)
    /\ polls \in Nat
    /\ observed \in {None, "queued", "running", "finished", "failed"}
    /\ Len(jobs) <= reqs
    /\ \A i \in 1..Len(q) : q[i] \in 1..Len(jobs)
    /\ wpc \in {"idle", "finally", "record"} \cup PipelineStages
    /\ wjob \in 0..Len(jobs)
    /\ transport \in {None, "open", "closed"}
    /\ sftp_client \in {None, "open", "closed"}
    /\ remoteDir \in BOOLEAN

\* the handler's thread and the worker process keep running
LiveSpec ==
    /\ Spec
    /\ WF_vars(\E up \in BOOLEAN : Poll(up))
    /\ WF_vars(GiveUp)

\* the steps of the worker on the job it has dequeued
Pipeline ==
    \/ \E ok \in BOOLEAN : OpenTransport(ok)
    \/ \E ok \in BOOLEAN : Connect(ok)
    \/ \E ok \in BOOLEAN : OpenSftp(ok)
    \/ \E r \in {"ok", "IOError", "Exception"} : Chdir(r)
    \/ \E ok \in BOOLEAN : Mkdir(ok)
    \/ \E ok \in BOOLEAN : Chdir2(ok)
    \/ \E ok \in BOOLEAN : Synthesize(ok)
    \/ \E ok \in BOOLEAN : Package(ok)
    \/ \E ok \in BOOLEAN : Transcode(ok)
    \/ \E ok \in BOOLEAN : Upload(ok)
    \/ Return
    \/ JobTimeout
    \/ Finally
    \/ Record

\* the worker process keeps running: every call of a stage returns, raises
\* or is stopped by the deadline of the job
WorkerLiveSpec ==
    /\ Spec
    /\ WF_vars(Pipeline)

----
\* Properties

NonTerminal == {"queued", "running"}
Budget == timeout * TicksPerSecond
Responded == resp # NoResponse
EnqueueError == Response(500, ErrRedis("enqueue"))

\* C1: a request with non-empty text makes at most timeout/interval = 120
\* status polls, is answered 200, 500 or 504, and a handler that is polling
\* always ends up answering
C1_BoundedWait ==
    /\ [](/\ polls <= Budget
          /\ (hpc = "poll" => ~Responded /\ ~Falsy(text) /\ polls = waited)
          /\ (hpc = "done" /\ ~Falsy(text)
                => Responded /\ resp.code \in {200, 500, 504}))
    /\ (hpc = "poll") ~> (hpc = "done")

C1_Witness ==
    /\ hpc = "done" /\ ~Falsy(text)
    /\ Responded /\ resp.code = 504 /\ polls = Budget

\* C2: a request whose text is missing or empty is answered 400 and leaves
\* the queue and the jobs as they were
C2_EmptyTextRejected ==
    [][(reqs' = reqs + 1 /\ (text' = None \/ text' = ""))
         => (/\ resp' = Response(400, ErrMissingText)
             /\ hpc' = "done"
             /\ q' = q /\ jobs' = jobs)]_vars

C2_Witness ==
    /\ reqs = 2 /\ text = "" /\ hpc = "done"
    /\ Responded /\ resp.code = 400 /\ Len(jobs) = 1 /\ Len(q) = 1

\* C3: 200 is answered only when the last poll saw the job finished, with
\* the result stored on the job as body, and a poll that sees finished ends
\* the loop
C3_OkOnlyWhenFinished ==
    /\ (Responded /\ resp.code = 200)
         => /\ observed = "finished"
            /\ jobs[job].status = "finished"
            /\ resp.body # NoneRec
            /\ resp.body = jobs[job].result
    /\ observed = "finished"
         => hpc = "done" /\ Responded /\ resp.code = 200

C3_Witness ==
    /\ Responded /\ resp.code = 200
    /\ observed = "finished" /\ polls > 1

\* C4: a poll that sees the job failed ends the loop with 500, never with
\* 200 or 504
C4_FailedGives500 ==
    observed = "failed"
      => /\ hpc = "done"
         /\ resp = Response(500, ErrWorkerFailed)

C4_Witness ==
    /\ observed = "failed" /\ polls > 1
    /\ Responded /\ resp.code = 500

\* C5: 504 is answered exactly when the budget is used up by polls that all
\* saw the job queued or running
C5_TimeoutIffBudgetExhausted ==
    Responded
      => ((resp.code = 504)
            <=> (/\ waited = Budget
                 /\ polls = Budget
                 /\ observed \in NonTerminal))

C5_Witness ==
    /\ Responded /\ resp.code = 504
    /\ observed = "running"

\* C6: answering 504 leaves the queue, the jobs and the worker as they are,
\* and the job it gave up on is still waiting in the queue or in the hands
\* of the worker unless it has ended
C6_TimeoutLeavesJob ==
    /\ [][(resp' # resp /\ resp'.code = 504)
            => UNCHANGED <<q, jobs, wvars, rvars>>]_vars
    /\ []((Responded /\ resp.code = 504)
            => /\ job \in 1..Len(jobs)
               /\ jobs[job].status = "queued"
                    => \E i \in 1..Len(q) : q[i] = job
               /\ jobs[job].status = "running" => wjob = job)

C6_Witness ==
    /\ Responded /\ resp.code = 504
    /\ jobs[job].status = "finished"
    /\ observed = "queued"

\* C7: when q.enqueue fails the answer is 500 with the Redis message, no
\* poll is made and no job is created
C7_EnqueueFailure ==
    /\ [][(reqs' = reqs + 1 /\ ~(text' = None \/ text' = "") /\ hpc' # "poll")
            => /\ resp' = EnqueueError
               /\ hpc' = "done"
               /\ jobs' = jobs /\ q' = q]_vars
    /\ []((Responded /\ resp = EnqueueError)
            => polls = 0 /\ job = 0 /\ observed = None /\ Len(jobs) < reqs)

C7_Witness ==
    /\ Responded /\ resp = EnqueueError
    /\ reqs = 1 /\ jobs = <<>> /\ q = <<>>

\* C8: a job is created queued, and its status only goes from queued to
\* running and from running to finished or failed; a finished or failed job
\* never changes
StatusSteps ==
    {<<"queued", "running">>, <<"running", "finished">>,
     <<"running", "failed">>}

C8_StatusLifecycle ==
    [][/\ Len(jobs') >= Len(jobs)
       /\ \A j \in 1..Len(jobs) :
            \/ jobs'[j] = jobs[j]
            \/ /\ jobs[j].status = jobs'[j].status
               /\ jobs[j].status = "running"
            \/ <<jobs[j].status, jobs'[j].status>> \in StatusSteps
       /\ \A j \in (Len(jobs) + 1)..Len(jobs') :
            /\ jobs'[j].status = "queued"
            /\ reqs' = reqs + 1]_vars

C8_Witness ==
    /\ Len(jobs) = 2
    /\ jobs[1].status = "failed"
    /\ jobs[2].status = "finished"

\* C9: a finished job names a file whose upload completed; once a stage has
\* failed no later stage runs, the job ends failed without a result, and a
\* 200 answer only names uploaded files
C9_FilenameOnlyAfterUpload ==
    /\ \A j \in 1..Len(jobs) :
         /\ jobs[j].status = "finished"
              => /\ jobs[j].result # NoneRec
                 /\ jobs[j].result.filename \in remoteFiles
                 /\ jobs[j].error = None
         /\ jobs[j].status = "failed"
              => jobs[j].result = NoneRec /\ jobs[j].error # None
    /\ exc # None => wpc \in {"finally", "record"} /\ ret = NoneRec
    /\ ret # NoneRec => ret.filename \in remoteFiles /\ filename = ret.filename
    /\ (Responded /\ resp.code = 200) => resp.body.filename \in remoteFiles

C9_Witness ==
    /\ wpc = "record" /\ exc = "upload"
    /\ filename # NoneRec /\ filename \notin remoteFiles

C11_FreshConnectionAfterFailure ==
    (wjob > 1 /\ jobs[wjob - 1].status = "failed")
      => /\ wpc = "open"
              => transport = None /\ sftp_client = None /\ opens = 0
         /\ wpc \in {"auth", "sftp"} => transport = "open" /\ opens = 1
         /\ wpc \in {"chdir", "mkdir", "chdir2", "synth", "package",
                     "transcode", "upload", "return"}
              => transport = "open" /\ sftp_client = "open" /\ opens = 1
         /\ filename \in remoteFiles => opens = 1 /\ sftp_client # None

C11_Witness ==
    /\ wjob = 2 /\ wpc = "record" /\ exc = None
    /\ jobs[1].status = "failed" /\ jobs[1].error = "paramiko"
    /\ ret # NoneRec /\ opens = 1

\* C12 (as stated): an upload is made only with the channel connected and
\* inside the delivery directory, and whenever the first chdir fails the
\* directory is created next
DirStages == {"chdir", "mkdir", "chdir2"}

UploadInDeliveryDir ==
    /\ wpc \in {"upload", "return"}
         => /\ transport = "open" /\ sftp_client = "open"
            /\ cwd = REMOTE_PATH /\ remoteDir
    /\ filename # NoneRec => cwd = REMOTE_PATH
    /\ exc \in DirStages => filename = NoneRec /\ cwd = None

C12_ChdirFailureCreates ==
    /\ []UploadInDeliveryDir
    /\ [][(wpc = "chdir" /\ wpc' # "chdir" /\ cwd' # REMOTE_PATH
             /\ exc' # "JobTimeoutException")
            => wpc' = "mkdir"]_vars

\* C12 (amended): an upload is made only with the channel connected and
\* inside the delivery directory; the directory is created after an IOError
\* of the first chdir only, any other failure of it ends the pipeline, and a
\* failure of mkdir or of the second chdir ends it without upload
C12_UploadInDeliveryDir ==
    /\ []UploadInDeliveryDir
    /\ [][(wpc = "chdir" /\ wpc' # "chdir")
            => \/ wpc' = "synth" /\ cwd' = REMOTE_PATH
               \/ wpc' = "mkdir" /\ cwd' = None /\ exc' = None
               \/ wpc' = "finally" /\ cwd' = None
                    /\ exc' \in {"chdir", "JobTimeoutException"}]_vars
    /\ [][(wpc = "mkdir" /\ wpc' # "mkdir")
            => \/ wpc' = "chdir2" /\ remoteDir' /\ ~remoteDir
               \/ wpc' = "finally" /\ cwd' = None
                    /\ exc' \in {"mkdir", "JobTimeoutException"}]_vars
    /\ [][(wpc = "chdir2" /\ wpc' # "chdir2")
            => \/ wpc' = "synth" /\ cwd' = REMOTE_PATH
               \/ wpc' = "finally" /\ cwd' = None
                    /\ exc' \in {"chdir2", "JobTimeoutException"}]_vars

C12_Witness ==
    /\ wpc = "record" /\ exc = "chdir"
    /\ ~remoteDir /\ filename = NoneRec

\* C13: a job whose pipeline failed, at whatever stage, is stored as failed
\* and the worker goes back to waiting for jobs, where it takes the next one
\* of the queue
FailureKinds == PipelineStages \cup {"JobTimeoutException"}

C13_WorkerSurvivesFailure ==
    /\ [][(wpc = "record" /\ exc # None /\ wpc' # wpc)
            => /\ wpc' = "idle"
               /\ jobs'[wjob].status = "failed"
               /\ jobs'[wjob].error # None
               /\ q' = q]_vars
    /\ [](/\ wpc \in {"idle", "finally", "record"} \cup PipelineStages
          /\ exc \in {None} \cup FailureKinds
          /\ (wpc = "idle" /\ q # <<>>) => ENABLED Dequeue)

C13_Witness ==
    /\ wjob = 2 /\ wpc = "open"
    /\ jobs[1].status = "failed" /\ jobs[1].error = "audio"

\* C14: a job stays running only while the worker is on it, so one job at a
\* time, and leaves that status only when the worker stores the outcome of
\* its pipeline, failed if the deadline stopped it; again and again there is
\* a moment where no job is running, so a job that runs does not run for
\* ever: it ends finished or failed
SomeRunning == \E j \in 1..Len(jobs) : jobs[j].status = "running"

C14_RunningJobEnds ==
    /\ [][\A j \in 1..Len(jobs) :
            (jobs[j].status = "running" /\ jobs'[j].status # "running")
              => /\ wpc = "record" /\ wjob = j
                 /\ jobs'[j].status =
                      IF exc = None THEN "finished" ELSE "failed"]_vars
    /\ [](\A j \in 1..Len(jobs) :
            jobs[j].status = "running" => wjob = j /\ wpc # "idle")
    /\ [](exc = "JobTimeoutException" => wpc \in {"finally", "record"})
    /\ [](\A j \in 1..Len(jobs) :
            jobs[j].status \in {"queued", "running", "finished", "failed"})
    /\ []<>~SomeRunning

C14_Witness ==
    /\ Len(jobs) = 2
    /\ jobs[1].status = "failed" /\ jobs[1].error = "JobTimeoutException"
    /\ jobs[2].status = "finished"

\* C15: the 500 answer for a failed job carries the fixed message and
\* nothing of the failure stored on the job, whatever that failure is, so
\* the answers for two jobs that failed differently are the same
C15_GenericFailureBody ==
    /\ [][(hpc = "poll" /\ hpc' = "done" /\ observed' = "failed"
             /\ polls' = polls + 1)
            => /\ resp' = Response(500, ErrWorkerFailed)
               /\ jobs[job].error \in {"paramiko", "audio",
                                       "JobTimeoutException"}]_vars
    /\ [](observed = "failed"
            => /\ resp.body = ErrWorkerFailed
               /\ \A j \in 1..Len(jobs) :
                    jobs[j].status = "failed"
                      => /\ resp.body.error[1] # jobs[j].error
                         /\ resp.body.error[2] # jobs[j].error)

C15_Witness ==
    /\ observed = "failed" /\ job = 2
    /\ jobs[1].status = "failed" /\ jobs[1].error = "paramiko"
    /\ jobs[2].status = "failed" /\ jobs[2].error = "audio"
    /\ resp.body = ErrWorkerFailed

\* C16: the pipeline of a job runs at most once: a job that ended, failed
\* or finished, is neither on the queue nor with the worker, and a failed
\* job stays as it is
InQueue(j) == \E i \in 1..Len(q) : q[i] = j

C16_NoRetry ==
    /\ [](/\ \A j \in 1..Len(jobs) :
               /\ jobs[j].runs <= 1
               /\ jobs[j].status = "queued" => jobs[j].runs = 0 /\ InQueue(j)
               /\ jobs[j].status \in {"finished", "failed"}
                    => jobs[j].runs = 1 /\ ~InQueue(j) /\ wjob # j
          /\ \A i, k \in 1..Len(q) : q[i] = q[k] => i = k)
    /\ [][\A j \in 1..Len(jobs) :
            jobs[j].status = "failed" => jobs'[j] = jobs[j]]_vars

C16_Witness ==
    /\ Len(jobs) = 2 /\ q = <<>> /\ wpc = "idle"
    /\ jobs[1].status = "failed" /\ jobs[1].runs = 1
    /\ jobs[2].status = "failed" /\ jobs[2].runs = 1

\* C17 (as stated): the result of a finished job is a name of 64 hexadecimal
\* characters with the extension .gsm, and saved_to is host, colon, path,
\* slash and that name
ResultShape(r, n) ==
    /\ r.filename.hexLen = n
    /\ r.filename.ext = ".gsm"
    /\ r.saved_to = <<SFTP_HOST, ":", REMOTE_PATH, "/", r.filename>>

C17_Hex64Result ==
    \A j \in 1..Len(jobs) :
        jobs[j].status = "finished" => ResultShape(jobs[j].result, 64)

\* C17 (amended): the name has the 32 hexadecimal characters of uuid4().hex
C17_Hex32Result ==
    /\ \A j \in 1..Len(jobs) :
         jobs[j].status = "finished" => ResultShape(jobs[j].result, 32)
    /\ resp.code = 200 => ResultShape(resp.body, 32)

C17_Witness ==
    /\ resp.code = 200
    /\ resp.body.filename.hexLen = 32
    /\ resp.body.filename \in remoteFiles

ConnectionStages == {"open", "auth", "sftp", "chdir", "mkdir", "chdir2"}
AudioStages == {"synth", "package", "transcode", "upload", "return"}

C19_ConnectBeforeSynthesis ==
    /\ [](wpc \in AudioStages
            => /\ transport = "open" /\ sftp_client = "open"
               /\ cwd = REMOTE_PATH /\ exc = None)
    /\ [](exc \in ConnectionStages
            => /\ wpc \in {"finally", "record"}
               /\ cwd = None /\ filename = NoneRec /\ ret = NoneRec)
    /\ [](wpc \in ConnectionStages => cwd = None)
    /\ [][(wpc' \in AudioStages /\ wpc \notin AudioStages)
            => wpc \in {"chdir", "chdir2"} /\ wpc' = "synth"]_vars
    /\ [][(wpc \in {"finally", "record"})
            => wpc' \in {"finally", "record", "idle"}]_vars

C19_Witness ==
    /\ wpc = "record" /\ exc = "auth"
    /\ cwd = None /\ transport = "closed"

\* C20: an iteration that does not answer sleeps, and when the budget is
\* used up the handler answers 504 without looking at the job again: 120
\* checks were made and what happened to the job since the last one is not
\* seen
C20_NoCheckAfterLastSleep ==
    /\ [][(hpc = "poll" /\ hpc' = "poll" /\ polls' = polls + 1)
            => waited' = waited + interval /\ observed' \in NonTerminal]_vars
    /\ [][(hpc = "poll" /\ hpc' = "done" /\ waited = Budget)
            => /\ resp' = Response(504, ErrWaitTimeout)
               /\ polls = Budget /\ polls' = polls
               /\ observed' = observed]_vars
    /\ [][(hpc = "poll" /\ hpc' = "done" /\ waited < Budget)
            => resp'.code \in {200, 500} /\ polls' = polls + 1]_vars

C20_Witness ==
    /\ resp.code = 504 /\ polls = Budget
    /\ observed = "running" /\ jobs[job].status = "failed"

====
